---- MODULE Spec2Model ----
(***************************************************************************)
(* A model of the containers of algorithms-in-rust.                        *)
(*                                                                         *)
(* GapBuffer<T> (src/src/gap_buffer.rs): a Vec<T> used as raw storage of   *)
(* `capacity()` slots and a Range<usize> `gap` of slots that hold no live  *)
(* value.  The state is the storage block, slot by slot, and the gap.      *)
(* Slots keep whatever bit pattern was last written to them: a freshly     *)
(* allocated slot is Uninit, a slot vacated by remove or by a relocation   *)
(* keeps the stale bits of the value that left it.  T is a non-zero-sized  *)
(* type (the test uses char), so the capacity of the Vec is the one        *)
(* requested.                                                              *)
(***************************************************************************)
EXTENDS Integers, Sequences, FiniteSets, TLC

\* ---------------------------------------------------------------- bounds
MaxLen == 5        \* no insert is issued once len() has reached MaxLen
MaxIter == 2       \* insert_iter is called with at most MaxIter values
UsizeBits == 5     \* width of usize in the model (64 on the real targets)

\* T is opaque to the buffer: no element is ever compared or inspected, only
\* moved.  Two element values tell a lost, duplicated or misplaced element from
\* a kept one; Uninit is the content of a slot no value was ever written to.
Vals == {1, 2}
Uninit == 0
UsizeMax == 2^UsizeBits - 1

\* Option<T>: None is <<>>, Some(v) is <<v>>
None == <<>>
Some(v) == <<v>>

\* last.len0 and last.pos0 are len() and position() before the call; last.follows
\* is <<x>> for a remove() called right after insert(x)
VARIABLES storage,       \* self.storage: the slots 0..capacity-1 (slot r is storage[r+1])
          gap,           \* self.gap: [start, end)
          status,        \* "ok", or "panicked" once a call has panicked
          last,          \* the last call: its name, arguments, result and what it copied
          only_inserts,  \* TRUE while nothing but insert/insert_iter/get was called since new()
          delivered,     \* the values handed to insert since new(), while only_inserts
          phase,         \* "free": any call may come next; "drain": the caller only calls remove()
          owed,          \* per bit pattern: the values inserted and not yet handed out by remove()
          destructed     \* the raw slots drop() has run drop_in_place on, in the order of the calls

\* linked_list3::List, linked_list1::List, linked_list5::LinkedList and
\* BinarySearchTree: the container (None in a program that has none), a
\* reference model of what it should hold, and the last call made on it
VARIABLES list3, deque3, call3,
          list1, stack1, call1,
          list5, stack5, call5,
          tree, inserted, call_bst

\* data_structures::trie::Trie: the trie (None in a program that has none),
\* the key-value pairs it should hold, and the last call made on it
VARIABLES trie, assoc, call_trie

\* the variables of each container
gap_buffer_vars == <<storage, gap, status, last, only_inserts, delivered, phase, owed, destructed>>
list3_vars == <<list3, deque3, call3>>
list1_vars == <<list1, stack1, call1>>
list5_vars == <<list5, stack5, call5>>
bst_vars == <<tree, inserted, call_bst>>
trie_vars == <<trie, assoc, call_trie>>

vars == <<gap_buffer_vars, list3_vars, list1_vars, list5_vars, bst_vars, trie_vars>>

\* what a call on one container leaves alone
not_gap_buffer == <<list3_vars, list1_vars, list5_vars, bst_vars, trie_vars>>
not_list3 == <<gap_buffer_vars, list1_vars, list5_vars, bst_vars, trie_vars>>
not_list1 == <<gap_buffer_vars, list3_vars, list5_vars, bst_vars, trie_vars>>
not_list5 == <<gap_buffer_vars, list3_vars, list1_vars, bst_vars, trie_vars>>
not_bst == <<gap_buffer_vars, list3_vars, list1_vars, list5_vars, trie_vars>>
not_trie == <<gap_buffer_vars, list3_vars, list1_vars, list5_vars, bst_vars>>

self == [storage |-> storage, gap |-> gap]

\* ----------------------------------------------------------- constructors

\* the record of a container on which nothing was called yet; expect is what
\* the reference model answers, emptied the end a list was last emptied from
no_call == [name |-> "new", arg |-> <<>>, ret |-> None, expect |-> None, panicked |-> FALSE,
            emptied |-> "never"]

\* linked_list3: List::new; nodes is the heap of Rc<RefCell<Node>> allocations
list3_new == [head |-> None, tail |-> None, nodes |-> <<>>]

\* linked_list1: List::new
list1_new == [head |-> None]

\* linked_list5: LinkedList::new; nodes is the heap of Box<Node> allocations
list5_new == [front |-> None, back |-> None, len |-> 0, nodes |-> <<>>]

\* BinarySearchTree::new
bst_new == [value |-> None, left |-> None, right |-> None]

\* trie: Node::default (no children, no value) and Trie::new
Node_default == [children |-> <<>>, value |-> None]
trie_new == [root |-> Node_default]

\* ------------------------------------------------------- the pure functions

\* GapBuffer::new
new == [storage |-> <<>>, gap |-> [start |-> 0, end |-> 0]]

\* Range::len of self.gap
gap_len(b) == IF b.gap.end >= b.gap.start THEN b.gap.end - b.gap.start ELSE 0

capacity(b) == Len(b.storage)

len(b) == capacity(b) - gap_len(b)

position(b) == b.gap.start

\* *self.space(index)
space(b, index) == b.storage[index + 1]

\* index + self.gap.len() does not fit in a usize
index_overflows(b, index) == index >= b.gap.start /\ index + gap_len(b) > UsizeMax

\* a translation that sends the cursor index itself to the first slot of the gap
index_to_raw_skips_late(b, index) ==
    IF index <= b.gap.start THEN index ELSE (index + gap_len(b)) % (UsizeMax + 1)

\* index_to_raw where the addition wraps (a build without overflow checks)
index_to_raw(b, index) ==
    IF index < b.gap.start THEN index ELSE (index + gap_len(b)) % (UsizeMax + 1)

\* get, given the raw offset
get(b, index) ==
    LET raw == index_to_raw(b, index)
    IN  IF raw < capacity(b) THEN Some(space(b, raw)) ELSE None

\* a copy that moves one element after the other, lowest offset first, and so
\* reads slots it has already overwritten when dst lies inside the source block
ptr_copy_forward(s, src, dst, count) ==
    LET RECURSIVE step(_, _)
        step(t, k) == IF k = count THEN t
                      ELSE step([t EXCEPT ![dst + k + 1] = t[src + k + 1]], k + 1)
    IN  step(s, 0)

\* ptr::copy(src, dst, count) within one block: the semantics of memmove,
\* every destination slot receives the value its source slot had before the call
ptr_copy(s, src, dst, count) ==
    [r \in 1..Len(s) |->
        IF (r - 1) >= dst /\ (r - 1) < dst + count THEN s[(r - 1) - dst + src + 1] ELSE s[r]]

\* ptr::copy_nonoverlapping(from + src, to + dst, count) between two blocks
ptr_copy_nonoverlapping(from, src, to, dst, count) ==
    [r \in 1..Len(to) |->
        IF (r - 1) >= dst /\ (r - 1) < dst + count THEN from[(r - 1) - dst + src + 1] ELSE to[r]]

\* Vec::with_capacity(n): n slots, none initialised
with_capacity(n) == [r \in 1..n |-> Uninit]

\* a growth that adds two slots to a storage that is not empty
enlarge_gap_by_two(b) ==
    LET new_capcity == IF capacity(b) * 2 = 0 THEN 4 ELSE capacity(b) + 2
        new0        == with_capacity(new_capcity)
        after_gap   == capacity(b) - b.gap.end
        new_gap     == [start |-> b.gap.start, end |-> Len(new0) - after_gap]
        new1        == ptr_copy_nonoverlapping(b.storage, 0, new0, 0, b.gap.start)
        new2        == ptr_copy_nonoverlapping(b.storage, b.gap.end, new1, new_gap.end, after_gap)
    IN  [storage |-> new2, gap |-> new_gap]

\* a growth that leaves the elements after the gap at their old offset
enlarge_gap_keep_offset(b) ==
    LET new_capcity == IF capacity(b) * 2 = 0 THEN 4 ELSE capacity(b) * 2
        new0        == with_capacity(new_capcity)
        after_gap   == capacity(b) - b.gap.end
        new_gap     == [start |-> b.gap.start, end |-> Len(new0) - after_gap]
        new1        == ptr_copy_nonoverlapping(b.storage, 0, new0, 0, b.gap.start)
        new2        == ptr_copy_nonoverlapping(b.storage, b.gap.end, new1, b.gap.end, after_gap)
    IN  [storage |-> new2, gap |-> new_gap]

enlarge_gap(b) ==
    LET new_capcity == IF capacity(b) * 2 = 0 THEN 4 ELSE capacity(b) * 2
        new0        == with_capacity(new_capcity)
        after_gap   == capacity(b) - b.gap.end
        new_gap     == [start |-> b.gap.start, end |-> Len(new0) - after_gap]
        new1        == ptr_copy_nonoverlapping(b.storage, 0, new0, 0, b.gap.start)
        new2        == ptr_copy_nonoverlapping(b.storage, b.gap.end, new1, new_gap.end, after_gap)
    IN  [storage |-> new2, gap |-> new_gap]

\* an insert that grows the storage as soon as one free slot is left
insert_grows_early(b, elt) ==
    LET g == IF gap_len(b) <= 1 THEN enlarge_gap(b) ELSE b
    IN  [storage |-> [g.storage EXCEPT ![g.gap.start + 1] = elt],
         gap     |-> [start |-> g.gap.start + 1, end |-> g.gap.end]]

\* an insert that puts the element behind the cursor: the gap shrinks from the back
insert_after_cursor(b, elt) ==
    LET g == IF gap_len(b) = 0 THEN enlarge_gap(b) ELSE b
    IN  [storage |-> [g.storage EXCEPT ![g.gap.end] = elt],
         gap     |-> [start |-> g.gap.start, end |-> g.gap.end - 1]]

\* an insert that grows the storage only after it has written the element
insert_grow_late(b, elt) ==
    LET w == [storage |-> [r \in 1..Len(b.storage) |->
                              IF r = b.gap.start + 1 THEN elt ELSE b.storage[r]],
              gap     |-> b.gap]
        g == IF gap_len(b) = 0 THEN enlarge_gap(w) ELSE w
    IN  [storage |-> g.storage,
         gap     |-> [start |-> g.gap.start + 1, end |-> g.gap.end]]

insert(b, elt) ==
    LET g == IF gap_len(b) = 0 THEN enlarge_gap(b) ELSE b
    IN  [storage |-> [g.storage EXCEPT ![g.gap.start + 1] = elt],
         gap     |-> [start |-> g.gap.start + 1, end |-> g.gap.end]]

\* an insert_iter that takes the values last to first
RECURSIVE insert_iter_reversed(_, _)
insert_iter_reversed(b, iter) ==
    IF iter = <<>> THEN b
    ELSE insert_iter_reversed(insert(b, iter[Len(iter)]), SubSeq(iter, 1, Len(iter) - 1))

RECURSIVE insert_iter(_, _)
insert_iter(b, iter) ==
    IF iter = <<>> THEN b ELSE insert_iter(insert(b, Head(iter)), Tail(iter))

\* the elements insert copies: those enlarge_gap moves to the new block
insert_copied(b) == IF gap_len(b) = 0 THEN b.gap.start + (capacity(b) - b.gap.end) ELSE 0

RECURSIVE insert_iter_copied(_, _)
insert_iter_copied(b, iter) ==
    IF iter = <<>> THEN 0
    ELSE insert_copied(b) + insert_iter_copied(insert(b, Head(iter)), Tail(iter))

\* a remove that reads the slot at the front of the gap
remove_at_gap_start(b) ==
    IF b.gap.end = capacity(b)
    THEN [storage |-> b.storage, gap |-> b.gap, ret |-> None]
    ELSE [storage |-> b.storage,
          gap     |-> [start |-> b.gap.start, end |-> b.gap.end + 1],
          ret     |-> Some(space(b, b.gap.start))]

\* a remove that gives up one element early
remove_stops_early(b) ==
    IF b.gap.end + 1 >= capacity(b)
    THEN [storage |-> b.storage, gap |-> b.gap, ret |-> None]
    ELSE [storage |-> b.storage,
          gap     |-> [start |-> b.gap.start, end |-> b.gap.end + 1],
          ret     |-> Some(space(b, b.gap.end))]

\* a remove whose end-of-buffer check lets gap.end == capacity through and
\* reads one slot past the storage
remove_checks_past_end(b) ==
    IF b.gap.end > capacity(b)
    THEN [storage |-> b.storage, gap |-> b.gap, ret |-> None]
    ELSE [storage |-> b.storage,
          gap     |-> [start |-> b.gap.start, end |-> b.gap.end + 1],
          ret     |-> IF b.gap.end < capacity(b) THEN Some(space(b, b.gap.end)) ELSE Some(Uninit)]

remove(b) ==
    IF b.gap.end = capacity(b)
    THEN [storage |-> b.storage, gap |-> b.gap, ret |-> None]
    ELSE [storage |-> b.storage,
          gap     |-> [start |-> b.gap.start, end |-> b.gap.end + 1],
          ret     |-> Some(space(b, b.gap.end))]

\* a relocation that moves the front of the gap and leaves its end where it was
set_potision_keeps_end(b, pos) ==
    LET g == b.gap
    IN  IF pos > g.start
        THEN [storage |-> ptr_copy(b.storage, g.end, g.start, pos - g.start),
              gap     |-> [start |-> pos, end |-> g.end],
              copied  |-> pos - g.start]
        ELSE IF pos < g.start
        THEN [storage |-> ptr_copy(b.storage, pos, g.end - (g.start - pos), g.start - pos),
              gap     |-> [start |-> pos, end |-> g.end],
              copied  |-> g.start - pos]
        ELSE [storage |-> b.storage,
              gap     |-> [start |-> pos, end |-> g.end],
              copied  |-> 0]

\* a bound check that also rejects pos == len()
set_potision_panics_at_len(b, pos) == pos >= len(b)

\* pos > self.len(): the call panics
set_potision_panics(b, pos) == pos > len(b)

\* a relocation towards the end that moves every element behind the gap
set_potision_moves_whole_tail(b, pos) ==
    LET g == b.gap
    IN  IF pos > g.start
        THEN [storage |-> ptr_copy(b.storage, g.end, g.start, capacity(b) - g.end),
              gap     |-> [start |-> pos, end |-> pos + gap_len(b)],
              copied  |-> capacity(b) - g.end]
        ELSE IF pos < g.start
        THEN [storage |-> ptr_copy(b.storage, pos, g.end - (g.start - pos), g.start - pos),
              gap     |-> [start |-> pos, end |-> pos + gap_len(b)],
              copied  |-> g.start - pos]
        ELSE [storage |-> b.storage,
              gap     |-> [start |-> pos, end |-> pos + gap_len(b)],
              copied  |-> 0]

set_potision(b, pos) ==
    LET g == b.gap
    IN  IF pos > g.start
        THEN [storage |-> ptr_copy(b.storage, g.end, g.start, pos - g.start),
              gap     |-> [start |-> pos, end |-> pos + gap_len(b)],
              copied  |-> pos - g.start]
        ELSE IF pos < g.start
        THEN [storage |-> ptr_copy(b.storage, pos, g.end - (g.start - pos), g.start - pos),
              gap     |-> [start |-> pos, end |-> pos + gap_len(b)],
              copied  |-> g.start - pos]
        ELSE [storage |-> b.storage,
              gap     |-> [start |-> pos, end |-> pos + gap_len(b)],
              copied  |-> 0]

\* a drop that runs down the whole storage, gap slots included
drop_whole_storage(b) == [i \in 1..capacity(b) |-> i - 1]

\* Drop for GapBuffer: the raw slots drop_in_place is called on, in order.  The
\* Vec itself always has length 0, so dropping it (here, or the old block in
\* enlarge_gap) frees the block and destructs nothing.
drop(b) ==
    [i \in 1..b.gap.start |-> i - 1]
        \o [i \in 1..(capacity(b) - b.gap.end) |-> b.gap.end + i - 1]

\* ----------------------------------------------------- the logical content

\* the live elements in the order of their raw slots: [0, gap.start) then [gap.end, capacity)
before_gap(b) == SubSeq(b.storage, 1, b.gap.start)
after_gap_seq(b) == SubSeq(b.storage, b.gap.end + 1, capacity(b))
content(b) == before_gap(b) \o after_gap_seq(b)

\* the values get(0), get(1), ... get(len()-1) return
read_all(b) == [i \in 1..len(b) |-> get(b, i - 1)]

\* how many times each bit pattern occurs in a sequence of slots
bag_of(s) == [v \in Vals \cup {Uninit} |-> Cardinality({i \in 1..Len(s) : s[i] = v})]

\* the bag with every value of a sequence added, and with one value taken out
RECURSIVE bag_add(_, _)
bag_add(bag, s) ==
    IF s = <<>> THEN bag ELSE bag_add([bag EXCEPT ![Head(s)] = @ + 1], Tail(s))

bag_take(bag, opt) == IF opt = None THEN bag ELSE [bag EXCEPT ![opt[1]] = @ - 1]

\* ------------------------------------------------------------- the calls

Call(name, arg, ret, copied, grew) ==
    [name |-> name, arg |-> arg, ret |-> ret, copied |-> copied, grew |-> grew,
     len0 |-> len(self), pos0 |-> position(self),
     follows |-> IF name = "remove" /\ last.name = "insert" THEN last.arg ELSE <<>>]

\* A program constructs the container it works with; of the others it has none
InitOf(container) ==
    /\ storage = new.storage
    /\ gap = new.gap
    /\ status = "ok"
    /\ last = [name |-> "new", arg |-> <<>>, ret |-> None, copied |-> 0, grew |-> FALSE,
               len0 |-> 0, pos0 |-> 0, follows |-> <<>>]
    /\ only_inserts = TRUE
    /\ delivered = <<>>
    /\ phase = "free"
    /\ owed = bag_of(<<>>)
    /\ destructed = <<>>
    /\ list3 = (IF container = "linked_list3" THEN list3_new ELSE None)
    /\ call3 = (IF container = "linked_list3" THEN no_call ELSE None)
    /\ list1 = (IF container = "linked_list1" THEN list1_new ELSE None)
    /\ call1 = (IF container = "linked_list1" THEN no_call ELSE None)
    /\ list5 = (IF container = "linked_list5" THEN list5_new ELSE None)
    /\ call5 = (IF container = "linked_list5" THEN no_call ELSE None)
    /\ tree = (IF container = "binary_search_tree" THEN bst_new ELSE None)
    /\ call_bst = (IF container = "binary_search_tree" THEN no_call ELSE None)
    /\ trie = (IF container = "trie" THEN trie_new ELSE None)
    /\ call_trie = (IF container = "trie" THEN no_call ELSE None)
    /\ deque3 = <<>> /\ stack1 = <<>> /\ stack5 = <<>> /\ inserted = <<>> /\ assoc = <<>>

Init == InitOf("gap_buffer")

Insert(elt) ==
    /\ status = "ok" /\ phase = "free"
    /\ len(self) < MaxLen
    /\ LET r == insert(self, elt)
       IN  /\ storage' = r.storage
           /\ gap' = r.gap
           /\ last' = Call("insert", <<elt>>, None, insert_copied(self),
                           capacity(r) # capacity(self))
    /\ delivered' = IF only_inserts THEN Append(delivered, elt) ELSE delivered
    /\ owed' = bag_add(owed, <<elt>>)
    /\ UNCHANGED <<status, only_inserts, phase, destructed>>
    /\ UNCHANGED not_gap_buffer

IterArgs == UNION {[1..n -> Vals] : n \in 0..MaxIter}

InsertIter(iter) ==
    /\ status = "ok" /\ phase = "free"
    /\ len(self) + Len(iter) <= MaxLen
    /\ LET r == insert_iter(self, iter)
       IN  /\ storage' = r.storage
           /\ gap' = r.gap
           /\ last' = Call("insert_iter", iter, None, insert_iter_copied(self, iter),
                           capacity(r) # capacity(self))
    /\ delivered' = IF only_inserts THEN delivered \o iter ELSE delivered
    /\ owed' = bag_add(owed, iter)
    /\ UNCHANGED <<status, only_inserts, phase, destructed>>
    /\ UNCHANGED not_gap_buffer

RemoveCall ==
    /\ status = "ok"
    /\ LET r == remove(self)
       IN  /\ storage' = r.storage
           /\ gap' = r.gap
           /\ last' = Call("remove", <<>>, r.ret, 0, FALSE)
           /\ owed' = bag_take(owed, r.ret)
    /\ only_inserts' = FALSE
    /\ delivered' = <<>>
    /\ UNCHANGED <<status, phase, destructed>>
    /\ UNCHANGED not_gap_buffer

Remove == phase = "free" /\ RemoveCall

SetPotision(pos) ==
    /\ status = "ok" /\ phase = "free"
    /\ IF set_potision_panics(self, pos)
       THEN /\ status' = "panicked"
            /\ last' = Call("set_potision", <<pos>>, None, 0, FALSE)
            /\ UNCHANGED <<storage, gap>>
       ELSE LET r == set_potision(self, pos)
            IN  /\ storage' = r.storage
                /\ gap' = r.gap
                /\ last' = Call("set_potision", <<pos>>, None, r.copied, FALSE)
                /\ UNCHANGED status
    /\ only_inserts' = FALSE
    /\ delivered' = <<>>
    /\ UNCHANGED <<phase, owed, destructed>>
    /\ UNCHANGED not_gap_buffer

\* the indices get is called with: every index in range, the first one out of
\* range and the largest usize
GetArgs == (0..len(self)) \cup {UsizeMax}

\* the positions set_potision is called with: every valid one and the first invalid one
SetPotisionArgs == 0..(len(self) + 1)

\* get(index); where index + gap.len() overflows, a build with overflow checks
\* panics and a build without them goes on with the wrapped offset
Get(index) ==
    /\ status = "ok" /\ phase = "free"
    /\ \/ /\ last' = Call("get", <<index>>, get(self, index), 0, FALSE)
          /\ UNCHANGED status
       \/ /\ index_overflows(self, index)
          /\ status' = "panicked"
          /\ last' = Call("get", <<index>>, None, 0, FALSE)
    /\ UNCHANGED <<storage, gap, only_inserts, delivered, phase, owed, destructed>>
    /\ UNCHANGED not_gap_buffer

Next ==
    \/ \E elt \in Vals : Insert(elt)
    \/ \E iter \in IterArgs : InsertIter(iter)
    \/ Remove
    \/ \E pos \in SetPotisionArgs : SetPotision(pos)

\* the calls that take &mut self
Spec == Init /\ [][Next]_vars

\* the same with calls of get, which takes &self, in between
NextGet ==
    \/ Next
    \/ \E index \in GetArgs : Get(index)

SpecGet == Init /\ [][NextGet]_vars

\* A caller that at some point starts calling remove() and nothing else
StartDrain ==
    /\ status = "ok" /\ phase = "free"
    /\ phase' = "drain"
    /\ UNCHANGED <<storage, gap, status, last, only_inserts, delivered, owed, destructed>>
    /\ UNCHANGED not_gap_buffer

DrainRemove == phase = "drain" /\ RemoveCall

NextDrain ==
    \/ \E elt \in Vals : Insert(elt)
    \/ \E iter \in IterArgs : InsertIter(iter)
    \/ Remove
    \/ \E pos \in SetPotisionArgs : SetPotision(pos)
    \/ StartDrain
    \/ DrainRemove

SpecDrain == Init /\ [][NextDrain]_vars /\ WF_vars(DrainRemove)

\* The buffer goes out of scope, after a call returned or while a panic
\* unwinds: Drop::drop runs, once, and no call follows
Drop ==
    /\ status \in {"ok", "panicked"} /\ phase = "free"
    /\ status' = "dropped"
    /\ destructed' = drop(self)
    /\ last' = Call("drop", <<>>, None, 0, FALSE)
    /\ UNCHANGED <<storage, gap, only_inserts, delivered, phase, owed>>
    /\ UNCHANGED not_gap_buffer

NextDrop ==
    \/ Next
    \/ Drop

SpecDrop == Init /\ [][NextDrop]_vars

\* ------------------------------------------------------------ the claims


\* a sequence without its i-th element
without(s, i) == SubSeq(s, 1, i - 1) \o SubSeq(s, i + 1, Len(s))

\* C1: a set_potision(p) that does not panic leaves position() == p and get(i)
\* as it was for every logical index i; also when the moved block is longer than
\* the gap (source and destination overlap) and when the gap is empty.
C1_SetPotisionKeepsContent ==
    [][(last'.name = "set_potision" /\ status' = "ok")
         => /\ position(self') = last'.arg[1]
            /\ read_all(self') = read_all(self)
            /\ \A i \in 0..(MaxLen + 1) : get(self', i) = get(self, i)]_vars

\* a block longer than the gap was moved towards the end of the storage
C1_Witness ==
    /\ last.name = "set_potision" /\ status = "ok"
    /\ last.arg[1] < last.pos0
    /\ gap_len(self) > 0
    /\ last.copied > gap_len(self)

\* C2 as stated: insert(x) immediately followed by remove() restores len() and
\* position() and the remove() returns x.
C2_InsertRemoveRestores ==
    [][(last.name = "insert" /\ last'.name = "remove")
         => /\ len(self') = last.len0
            /\ position(self') = last.pos0
            /\ last'.ret = Some(last.arg[1])]_vars

\* C2 amended: insert(x) immediately followed by remove() leaves position() one
\* greater than before the insert and x readable at the old cursor index; the
\* remove() returns the element that was at the cursor before the insert, or
\* None if the cursor was at the end; len() is restored exactly when an element
\* was returned, and is one greater than before the insert otherwise.
C2_InsertRemoveAmended ==
    [][(last.name = "insert" /\ last'.name = "remove")
         => LET p == last.pos0
                n == last.len0
            IN  /\ position(self') = p + 1
                /\ get(self', p) = Some(last.arg[1])
                /\ last'.ret = (IF p < n THEN get(self, p + 1) ELSE None)
                /\ len(self') = (IF p < n THEN n ELSE n + 1)]_vars

\* a remove() right after an insert(x) that returned an element other than x
C2_Witness ==
    /\ last.name = "remove"
    /\ last.follows # <<>>
    /\ last.ret # None
    /\ last.ret # last.follows

\* C3: with position() == p and content s, insert(x) yields the content
\* s[0..p] ++ [x] ++ s[p..] and position() == p + 1, with or without growth.
C3_InsertAtCursor ==
    [][last'.name = "insert"
         => LET p == position(self)
                s == read_all(self)
            IN  /\ read_all(self') =
                      SubSeq(s, 1, p) \o <<Some(last'.arg[1])>> \o SubSeq(s, p + 1, Len(s))
                /\ position(self') = p + 1]_vars

\* an insert that grew the storage with elements after the cursor
C3_Witness ==
    /\ last.name = "insert"
    /\ last.grew
    /\ last.pos0 > 0
    /\ gap.end < capacity(self)

\* C4: with position() == p < len(), remove() returns what get(p) returned,
\* len() drops by one, position() stays p and the other elements keep their order.
C4_RemoveAtCursor ==
    [][(last'.name = "remove" /\ position(self) < len(self))
         => LET p == position(self)
            IN  /\ last'.ret = get(self, p)
                /\ len(self') = len(self) - 1
                /\ position(self') = p
                /\ read_all(self') = without(read_all(self), p + 1)]_vars

\* a remove() that took an element from between two others
C4_Witness ==
    /\ last.name = "remove"
    /\ last.ret # None
    /\ last.pos0 > 0
    /\ last.pos0 < len(self)

\* C5: from new(), after insert / insert_iter calls that deliver v1..vn in order
\* with no set_potision or remove in between, len() == n, position() == n and
\* get(i) == v(i+1); insert_iter delivers its values as insert would, in order.
C5_InsertsInOrder ==
    /\ [](only_inserts =>
            /\ len(self) = Len(delivered)
            /\ position(self) = Len(delivered)
            /\ read_all(self) = [i \in 1..Len(delivered) |-> Some(delivered[i])])
    /\ [][last'.name = "insert_iter"
            => LET p  == position(self)
                   s  == read_all(self)
                   vs == last'.arg
               IN  /\ read_all(self') = SubSeq(s, 1, p)
                                          \o [i \in 1..Len(vs) |-> Some(vs[i])]
                                          \o SubSeq(s, p + 1, Len(s))
                   /\ position(self') = p + Len(vs)]_vars

\* insert_iter delivered two different values and the storage had to grow
C5_Witness ==
    /\ only_inserts
    /\ last.name = "insert_iter"
    /\ Len(last.arg) = 2
    /\ last.arg[1] # last.arg[2]
    /\ last.grew
    /\ last.len0 > 0

\* C6: every insert, growing or not, raises len() by one and keeps the elements
\* before the gap and the elements after the gap as they were, none lost,
\* duplicated or reordered.
C6_InsertKeepsElements ==
    [][last'.name = "insert"
         => /\ len(self') = len(self) + 1
            /\ before_gap(self') = Append(before_gap(self), last'.arg[1])
            /\ after_gap_seq(self') = after_gap_seq(self)
            /\ content(self') = SubSeq(content(self), 1, position(self))
                                  \o <<last'.arg[1]>>
                                  \o SubSeq(content(self), position(self) + 1, len(self))]_vars

\* an insert that found the gap empty with elements on both sides of it
C6_Witness ==
    /\ last.name = "insert"
    /\ last.grew
    /\ last.copied = last.len0
    /\ last.pos0 > 0
    /\ last.pos0 < last.len0

\* C7: get(i) returns Some(the element at logical index i) exactly when
\* i < len() and None exactly when i >= len(), and changes nothing.
C7_GetInBounds ==
    [][last'.name = "get"
         => /\ status' = "ok"
            /\ UNCHANGED <<storage, gap>>
            /\ last'.ret = (IF last'.arg[1] < len(self)
                            THEN Some(content(self)[last'.arg[1] + 1])
                            ELSE None)]_vars

\* C8: set_potision(p) panics exactly when p > len(), and then nothing was moved.
C8_SetPotisionPanics ==
    [][last'.name = "set_potision"
         => /\ (status' = "panicked") <=> (last'.arg[1] > len(self))
            /\ (status' = "panicked") => UNCHANGED <<storage, gap>>]_vars

\* set_potision(len() + 1) panicked on a buffer that holds elements
C8_Witness ==
    /\ status = "panicked"
    /\ last.name = "set_potision"
    /\ last.arg[1] = len(self) + 1
    /\ len(self) > 0

\* C9: remove() returns None exactly when position() == len(), which is when
\* gap.end == capacity, and then changes nothing; a caller that only calls
\* remove() eventually gets None and gets None from then on.
C9_RemoveNone ==
    /\ [][(last'.name = "remove" /\ phase' = phase)
            => /\ (last'.ret = None) <=> (position(self) = len(self))
               /\ (position(self) = len(self)) <=> (gap.end = capacity(self))
               /\ (last'.ret = None) => UNCHANGED <<storage, gap>>]_vars
    /\ [][(phase = "drain" /\ last.name = "remove" /\ last.ret = None)
            => (last'.name = "remove" /\ last'.ret = None)]_vars
    /\ (phase = "drain") ~> (phase = "drain" /\ last.name = "remove" /\ last.ret = None)

\* a caller that only calls remove() got None from a buffer that still holds
\* elements before the cursor
C9_Witness ==
    /\ phase = "drain"
    /\ last.name = "remove"
    /\ last.ret = None
    /\ last.pos0 > 0
    /\ last.len0 = last.pos0

\* C10: 0 <= gap.start <= gap.end <= capacity(), hence position() <= len() <= capacity().
C10_GapInBounds ==
    /\ 0 <= gap.start
    /\ gap.start <= gap.end
    /\ gap.end <= capacity(self)
    /\ position(self) <= len(self)
    /\ len(self) <= capacity(self)

\* the gap sits inside a grown storage after a relocation
C10_Witness ==
    /\ last.name = "set_potision" /\ status = "ok"
    /\ capacity(self) > 4
    /\ 0 < gap.start
    /\ gap.start < gap.end
    /\ gap.end < capacity(self)

\* the raw slots that hold a live value: [0, gap.start) and [gap.end, capacity)
live_slots(b) == (0..(b.gap.start - 1)) \cup (b.gap.end..(capacity(b) - 1))

\* the raw slots of the gap: [gap.start, gap.end)
gap_slots(b) == b.gap.start..(b.gap.end - 1)

\* C11: index_to_raw maps the logical indices 0..len() one-to-one and in
\* increasing order onto exactly the live slots [0, gap.start) and
\* [gap.end, capacity), never into the gap; the live slots hold exactly the
\* values inserted and not yet removed, each as often as it is owed.
C11_IndexToRawOntoLive ==
    LET n   == len(self)
        raw == [i \in 0..(n - 1) |-> index_to_raw(self, i)]
    IN  /\ \A i \in 0..(n - 1) : raw[i] \notin gap_slots(self)
        /\ \A i \in 0..(n - 1) : raw[i] \in live_slots(self)
        /\ \A i \in 0..(n - 2) : raw[i] < raw[i + 1]
        /\ {raw[i] : i \in 0..(n - 1)} = live_slots(self)
        /\ Cardinality(live_slots(self)) = n
        /\ [i \in 1..n |-> space(self, raw[i - 1])] = content(self)
        /\ bag_of(content(self)) = owed

\* a remove() left stale bits in a gap that has live elements on both sides,
\* in a storage that was reallocated
C11_Witness ==
    /\ last.name = "remove" /\ last.ret # None
    /\ capacity(self) > 4
    /\ 0 < gap.start
    /\ gap.end < capacity(self)
    /\ \E r \in gap_slots(self) : space(self, r) \in Vals

\* two to the power k
RECURSIVE pow2(_)
pow2(k) == IF k = 0 THEN 1 ELSE 2 * pow2(k - 1)

\* C12: enlarge_gap doubles the capacity (4 from 0), leaves gap.start and the
\* number of elements before and after the gap unchanged and makes one gap of
\* size (new capacity - old capacity) + old gap length; capacity() is always
\* 0 or 4 * 2^k and never decreases.
C12_EnlargeGapDoubles ==
    /\ [](LET e == enlarge_gap(self)
          IN  /\ capacity(e) = (IF capacity(self) = 0 THEN 4 ELSE 2 * capacity(self))
              /\ e.gap.start = gap.start
              /\ Len(before_gap(e)) = Len(before_gap(self))
              /\ Len(after_gap_seq(e)) = Len(after_gap_seq(self))
              /\ e.gap.end - e.gap.start = (capacity(e) - capacity(self)) + gap_len(self)
              /\ live_slots(e) \cup gap_slots(e) = 0..(capacity(e) - 1))
    /\ [][last'.name = "insert"
            => capacity(self') = (IF gap_len(self) > 0 THEN capacity(self)
                                  ELSE IF capacity(self) = 0 THEN 4
                                  ELSE 2 * capacity(self))]_vars
    /\ [](capacity(self) = 0 \/ \E k \in 0..MaxLen : capacity(self) = 4 * pow2(k))
    /\ [][capacity(self') >= capacity(self)]_vars

\* an insert doubled a full storage of four slots that had elements on both
\* sides of the cursor
C12_Witness ==
    /\ last.name = "insert" /\ last.grew
    /\ capacity(self) = 8
    /\ gap_len(self) = 3
    /\ last.pos0 > 0
    /\ last.pos0 < last.len0

\* C13: dropping the buffer destructs each slot of [0, gap.start) and
\* [gap.end, capacity) exactly once and no gap slot; every inserted value is
\* exactly once either handed out by remove() or destructed at drop: remove()
\* never hands out more than was inserted, nothing is destructed before drop,
\* and drop destructs exactly the values still owed.
C13_DropDestructsLive ==
    /\ \A v \in Vals : owed[v] >= 0
    /\ owed[Uninit] = 0
    /\ status # "dropped" => destructed = <<>>
    /\ status = "dropped" =>
          /\ \A i, j \in 1..Len(destructed) : destructed[i] = destructed[j] => i = j
          /\ {destructed[i] : i \in 1..Len(destructed)} = live_slots(self)
          /\ \A i \in 1..Len(destructed) : destructed[i] \notin gap_slots(self)
          /\ bag_of([i \in 1..Len(destructed) |-> space(self, destructed[i])]) = owed

\* a reallocated buffer was dropped with live elements on both sides of a gap
\* that holds the stale bits of a removed element
C13_Witness ==
    /\ status = "dropped"
    /\ capacity(self) > 4
    /\ 0 < gap.start
    /\ gap.end < capacity(self)
    /\ \E r \in gap_slots(self) : space(self, r) \in Vals
    /\ Len(destructed) = len(self)

\* C14: a set_potision(p) that does not panic leaves the gap width, capacity()
\* and len() unchanged; the gap afterwards is p .. p + old gap width.
C14_SetPotisionKeepsGapWidth ==
    [][(last'.name = "set_potision" /\ status' = "ok")
         => /\ gap'.end - gap'.start = gap.end - gap.start
            /\ capacity(self') = capacity(self)
            /\ len(self') = len(self)
            /\ gap' = [start |-> last'.arg[1],
                       end   |-> last'.arg[1] + (gap.end - gap.start)]]_vars

\* the cursor was moved towards the end of a buffer with a gap of several slots
C14_Witness ==
    /\ last.name = "set_potision" /\ status = "ok"
    /\ last.arg[1] > last.pos0
    /\ gap.end - gap.start > 1
    /\ gap.start = last.arg[1]

\* C15: for every index i of the integer width, i + gap length does not
\* overflow or wrap: get(i) never faults, returns None for every i >= len()
\* and never reads a slot inside the gap.
C15_IndexToRawTotal ==
    [][last'.name = "get"
         => /\ ~index_overflows(self, last'.arg[1])
            /\ status' = "ok"
            /\ index_to_raw(self, last'.arg[1]) \notin gap_slots(self)
            /\ (last'.arg[1] >= len(self) => last'.ret = None)]_vars

\* C23: the storage grows only inside insert, only when the gap is empty, and
\* before the value is written: the value lands in the grown block.  An insert
\* that finds a non-empty gap, and every remove, set_potision and get, leave
\* capacity() unchanged; insert writes one slot, the first of the current gap.
C23_GrowthOnlyInFullInsert ==
    [][/\ capacity(self') # capacity(self) => last'.name \in {"insert", "insert_iter"}
       /\ last'.name \in {"remove", "set_potision", "get"} => capacity(self') = capacity(self)
       /\ last'.name = "insert_iter"
             => (capacity(self') # capacity(self) <=> gap_len(self) < Len(last'.arg))
       /\ last'.name = "insert"
             => LET g == IF gap.start = gap.end THEN enlarge_gap(self) ELSE self
                IN  /\ capacity(self') # capacity(self) <=> gap.start = gap.end
                    /\ capacity(self') = capacity(g)
                    /\ gap.start \in gap_slots(g)
                    /\ space(self', gap.start) = last'.arg[1]
                    /\ \A r \in (0..(capacity(g) - 1)) \ {gap.start} :
                          space(self', r) = space(g, r)]_vars

\* an insert with the cursor at the end of a full storage of four slots put
\* its value into the grown block
C23_Witness ==
    /\ last.name = "insert" /\ last.grew
    /\ last.pos0 = 4 /\ last.len0 = 4
    /\ capacity(self) = 8
    /\ space(self, 4) = last.arg[1]
    /\ gap = [start |-> 5, end |-> 8]

\* the raw slots that differ between two blocks of the same capacity
changed_slots(s, u) == {r \in 0..(Len(s) - 1) : s[r + 1] # u[r + 1]}

\* C24: a set_potision(p) that does not panic copies exactly |p - position()|
\* elements and changes no raw slot outside the span from the lower gap start
\* to the higher gap end; set_potision(position()) copies nothing and leaves
\* storage and gap as they were.  An insert into a non-empty gap and a remove
\* copy nothing and change no slot but the one written; an insert that grows
\* copies exactly len() elements.
C24_CopiesAreBounded ==
    [][/\ (last'.name = "set_potision" /\ status' = "ok")
             => LET p  == last'.arg[1]
                    lo == IF gap.start < gap'.start THEN gap.start ELSE gap'.start
                    hi == IF gap.end > gap'.end THEN gap.end ELSE gap'.end
                IN  /\ last'.copied = (IF p > position(self) THEN p - position(self)
                                                             ELSE position(self) - p)
                    /\ changed_slots(storage, storage') \subseteq lo..(hi - 1)
                    /\ Cardinality(changed_slots(storage, storage')) <= last'.copied
                    /\ p = position(self) => (storage' = storage /\ gap' = gap)
       /\ (last'.name = "insert" /\ gap.start # gap.end)
             => /\ last'.copied = 0
                /\ changed_slots(storage, storage') \subseteq {gap.start}
       /\ last'.name = "remove"
             => /\ last'.copied = 0
                /\ storage' = storage
       /\ (last'.name = "insert" /\ gap.start = gap.end)
             => /\ last'.copied = len(self)
                /\ last'.grew]_vars

\* the cursor was moved two places towards the front, between elements that
\* stay on both sides of the gap
C24_Witness ==
    /\ last.name = "set_potision" /\ status = "ok"
    /\ last.arg[1] = last.pos0 - 2
    /\ last.copied = 2
    /\ gap.start > 0 /\ gap.end < capacity(self) - 2

\* =========================================================================
\* linked_list3::List<T> (src/src/linked_list3.rs): a doubly linked list of
\* Rc<RefCell<Node<T>>>.  list3.nodes is the heap: the allocations that are
\* alive, by address; a Link is None or Some(address).  An allocation stays
\* alive as long as a Link to it exists.
\* =========================================================================

\* ---------------------------------------------------------------- bounds
MaxNodes == 4      \* no push is issued once a list holds MaxNodes nodes

\* Node::new
Node_new(elem) == [elem |-> elem, prev |-> None, next |-> None]

\* the address Rc::new returns: one that no live allocation has
alloc(nodes) == CHOOSE a \in 1..(Cardinality(DOMAIN nodes) + 1) : a \notin DOMAIN nodes

\* Rc::strong_count of the allocation at address a, the caller's own handle not counted
strong_count(l, a) ==
    Cardinality({f \in {"head", "tail"} : l[f] = Some(a)})
      + Cardinality({n \in DOMAIN l.nodes : l.nodes[n].prev = Some(a)})
      + Cardinality({n \in DOMAIN l.nodes : l.nodes[n].next = Some(a)})

\* the heap without the allocation at address a
dealloc(nodes, a) == [n \in DOMAIN nodes \ {a} |-> nodes[n]]

list3_push_front(l, elem) ==
    LET new_node == alloc(l.nodes)
        old_head == l.head
        nodes1   == (new_node :> [Node_new(elem) EXCEPT !.next = old_head]) @@ l.nodes
    IN  IF old_head # None
        THEN [head  |-> Some(new_node),
              tail  |-> l.tail,
              nodes |-> [nodes1 EXCEPT ![old_head[1]].prev = Some(new_node)]]
        ELSE [head  |-> Some(new_node),
              tail  |-> Some(new_node),
              nodes |-> nodes1]

list3_push_back(l, elem) ==
    LET new_node == alloc(l.nodes)
        old_tail == l.tail
        nodes1   == (new_node :> [Node_new(elem) EXCEPT !.prev = old_tail]) @@ l.nodes
    IN  IF old_tail # None
        THEN [head  |-> l.head,
              tail  |-> Some(new_node),
              nodes |-> [nodes1 EXCEPT ![old_tail[1]].next = Some(new_node)]]
        ELSE [head  |-> Some(new_node),
              tail  |-> Some(new_node),
              nodes |-> nodes1]

\* Rc::try_unwrap(node).ok().unwrap().into_inner().elem: the element, if the
\* caller's handle is the only one left; a panic otherwise
try_unwrap(l, a) ==
    IF strong_count(l, a) = 0
    THEN [list |-> [l EXCEPT !.nodes = dealloc(l.nodes, a)],
          ret |-> Some(l.nodes[a].elem), panicked |-> FALSE]
    ELSE [list |-> l, ret |-> None, panicked |-> TRUE]

list3_pop_front(l) ==
    IF l.head = None
    THEN [list |-> l, ret |-> None, panicked |-> FALSE]
    ELSE LET old_head == l.head[1]
             new_head == l.nodes[old_head].next
             nodes1   == [l.nodes EXCEPT ![old_head].next = None]
             l1 == IF new_head # None
                   THEN [head  |-> new_head,
                         tail  |-> l.tail,
                         nodes |-> [nodes1 EXCEPT ![new_head[1]].prev = None]]
                   ELSE [head  |-> None,
                         tail  |-> None,
                         nodes |-> nodes1]
         IN  try_unwrap(l1, old_head)

\* a pop_back that leaves the head link in place when it takes the last node
list3_pop_back_keeps_head(l) ==
    IF l.tail = None
    THEN [list |-> l, ret |-> None, panicked |-> FALSE]
    ELSE LET old_tail == l.tail[1]
             new_tail == l.nodes[old_tail].prev
             nodes1   == [l.nodes EXCEPT ![old_tail].prev = None]
             l1 == IF new_tail # None
                   THEN [head  |-> l.head,
                         tail  |-> new_tail,
                         nodes |-> [nodes1 EXCEPT ![new_tail[1]].next = None]]
                   ELSE [head  |-> l.head,
                         tail  |-> None,
                         nodes |-> nodes1]
         IN  try_unwrap(l1, old_tail)

list3_pop_back(l) ==
    IF l.tail = None
    THEN [list |-> l, ret |-> None, panicked |-> FALSE]
    ELSE LET old_tail == l.tail[1]
             new_tail == l.nodes[old_tail].prev
             nodes1   == [l.nodes EXCEPT ![old_tail].prev = None]
             l1 == IF new_tail # None
                   THEN [head  |-> l.head,
                         tail  |-> new_tail,
                         nodes |-> [nodes1 EXCEPT ![new_tail[1]].next = None]]
                   ELSE [head  |-> None,
                         tail  |-> None,
                         nodes |-> nodes1]
         IN  try_unwrap(l1, old_tail)

list3_peek_front(l) == IF l.head = None THEN None ELSE Some(l.nodes[l.head[1]].elem)

list3_peek_back(l) == IF l.tail = None THEN None ELSE Some(l.nodes[l.tail[1]].elem)

\* the elements met by following next from head, and prev from tail; a walk
\* ends at None, at a dangling link, or after as many steps as there are nodes
RECURSIVE walk(_, _, _, _)
walk(nodes, link, field, fuel) ==
    IF link = None \/ fuel = 0 THEN <<>>
    ELSE IF link[1] \notin DOMAIN nodes THEN <<Uninit>>
    ELSE <<nodes[link[1]].elem>> \o walk(nodes, nodes[link[1]][field], field, fuel - 1)

from_head(l) == walk(l.nodes, l.head, "next", Cardinality(DOMAIN l.nodes) + 1)
from_tail(l) == walk(l.nodes, l.tail, "prev", Cardinality(DOMAIN l.nodes) + 1)

\* a sequence back to front
Reverse(s) == [i \in 1..Len(s) |-> s[Len(s) + 1 - i]]

\* the answer of a sequence used as a deque
first_of(s) == IF s = <<>> THEN None ELSE Some(Head(s))
last_of(s) == IF s = <<>> THEN None ELSE Some(s[Len(s)])
without_first(s) == IF s = <<>> THEN s ELSE Tail(s)
without_last(s) == IF s = <<>> THEN s ELSE SubSeq(s, 1, Len(s) - 1)

\* call3.emptied: the end the list was last emptied from ("never" at first)
Call3(name, arg, ret, expect, panicked, emptied) ==
    [name |-> name, arg |-> arg, ret |-> ret, expect |-> expect, panicked |-> panicked,
     emptied |-> emptied]

List3PushFront(elem) ==
    /\ ~call3.panicked
    /\ Len(deque3) < MaxNodes
    /\ list3' = list3_push_front(list3, elem)
    /\ deque3' = <<elem>> \o deque3
    /\ call3' = Call3("push_front", <<elem>>, None, None, FALSE, call3.emptied)
    /\ UNCHANGED not_list3

List3PushBack(elem) ==
    /\ ~call3.panicked
    /\ Len(deque3) < MaxNodes
    /\ list3' = list3_push_back(list3, elem)
    /\ deque3' = Append(deque3, elem)
    /\ call3' = Call3("push_back", <<elem>>, None, None, FALSE, call3.emptied)
    /\ UNCHANGED not_list3

List3PopFront ==
    /\ ~call3.panicked
    /\ LET r == list3_pop_front(list3)
       IN  /\ list3' = r.list
           /\ call3' = Call3("pop_front", <<>>, r.ret, first_of(deque3), r.panicked,
                             IF Len(deque3) = 1 THEN "front" ELSE call3.emptied)
    /\ deque3' = without_first(deque3)
    /\ UNCHANGED not_list3

List3PopBack ==
    /\ ~call3.panicked
    /\ LET r == list3_pop_back(list3)
       IN  /\ list3' = r.list
           /\ call3' = Call3("pop_back", <<>>, r.ret, last_of(deque3), r.panicked,
                             IF Len(deque3) = 1 THEN "back" ELSE call3.emptied)
    /\ deque3' = without_last(deque3)
    /\ UNCHANGED not_list3

List3PeekFront ==
    /\ ~call3.panicked
    /\ call3' = Call3("peek_front", <<>>, list3_peek_front(list3), first_of(deque3), FALSE,
                      call3.emptied)
    /\ UNCHANGED <<list3, deque3>>
    /\ UNCHANGED not_list3

List3PeekBack ==
    /\ ~call3.panicked
    /\ call3' = Call3("peek_back", <<>>, list3_peek_back(list3), last_of(deque3), FALSE,
                      call3.emptied)
    /\ UNCHANGED <<list3, deque3>>
    /\ UNCHANGED not_list3

NextList3 ==
    \/ \E elem \in Vals : List3PushFront(elem)
    \/ \E elem \in Vals : List3PushBack(elem)
    \/ List3PopFront
    \/ List3PopBack
    \/ List3PeekFront
    \/ List3PeekBack

SpecList3 == InitOf("linked_list3") /\ [][NextList3]_vars

\* C16: under any interleaving of push_front, push_back, pop_front and
\* pop_back the list holds, from head by next and from tail by prev, what a
\* sequence used as a deque holds; every pop returns what the sequence returns
\* at that end (None exactly when it is empty) and no call panics;
\* peek_front / peek_back show the first / last element and remove nothing.
C16_List3IsDeque ==
    /\ ~call3.panicked
    /\ call3.ret = call3.expect
    /\ (call3.name \in {"pop_front", "pop_back"} /\ call3.ret = None) => deque3 = <<>>
    /\ from_head(list3) = deque3
    /\ from_tail(list3) = Reverse(deque3)
    /\ Cardinality(DOMAIN list3.nodes) = Len(deque3)
    /\ list3_peek_front(list3) = first_of(deque3)
    /\ list3_peek_back(list3) = last_of(deque3)

\* a list that was emptied from the back and pushed to again gave up the right
\* element at the front, with elements left
C16_Witness ==
    /\ call3.name = "pop_front"
    /\ call3.ret # None
    /\ call3.emptied = "back"
    /\ Len(deque3) >= 2
    /\ deque3[1] # deque3[Len(deque3)]

\* =========================================================================
\* linked_list1::List<T> (src/src/linked_list1.rs): a singly linked stack of
\* Box<Node<T>>.  A Link is None or Some(node), the node owning its successor.
\* =========================================================================

\* a push whose new node does not take over the old head
list1_push_drops_rest(l, elem) == [head |-> Some([elme |-> elem, next |-> None])]

list1_push(l, elem) == [head |-> Some([elme |-> elem, next |-> l.head])]

list1_pop(l) ==
    IF l.head = None
    THEN [list |-> [head |-> None], ret |-> None]
    ELSE [list |-> [head |-> l.head[1].next], ret |-> Some(l.head[1].elme)]

list1_peek(l) == IF l.head = None THEN None ELSE Some(l.head[1].elme)

\* List::into_iter, List::iter, List::iter_mut: the iterator each returns
list1_into_iter(l) == [list |-> l]
list1_iter(l) == [next |-> l.head]
list1_iter_mut(l) == [next |-> l.head]

\* Iterator::next of IntoIter, Iter and IterMut
IntoIter_next(it) ==
    LET r == list1_pop(it.list) IN [iter |-> [list |-> r.list], ret |-> r.ret]

Iter_next(it) ==
    IF it.next = None
    THEN [iter |-> it, ret |-> None]
    ELSE [iter |-> [next |-> it.next[1].next], ret |-> Some(it.next[1].elme)]

IterMut_next(it) ==
    IF it.next = None
    THEN [iter |-> [next |-> None], ret |-> None]
    ELSE [iter |-> [next |-> it.next[1].next], ret |-> Some(it.next[1].elme)]

iterator_next(kind, it) ==
    CASE kind = "into_iter" -> IntoIter_next(it)
      [] kind = "iter"      -> Iter_next(it)
      [] kind = "iter_mut"  -> IterMut_next(it)

\* what a caller sees who calls next() until it returns None and then once more
RECURSIVE yields(_, _, _)
yields(kind, it, fuel) ==
    LET r == iterator_next(kind, it)
    IN  IF fuel = 0 THEN <<>>
        ELSE IF r.ret = None THEN <<None, iterator_next(kind, r.iter).ret>>
        ELSE <<r.ret>> \o yields(kind, r.iter, fuel - 1)

\* the elements of the nodes from a link on
RECURSIVE elems_from(_)
elems_from(link) ==
    IF link = None THEN <<>> ELSE <<link[1].elme>> \o elems_from(link[1].next)

\* what next() should return, call after call, on a stack with s[1] on top
all_then_none(s) == [i \in 1..Len(s) |-> Some(s[i])] \o <<None, None>>

Call1(name, arg, ret, expect) ==
    [name |-> name, arg |-> arg, ret |-> ret, expect |-> expect, panicked |-> FALSE,
     emptied |-> IF name = "pop" /\ Len(stack1) = 1 THEN "front" ELSE call1.emptied]

\* into_iter(self) takes the list: no call can follow it
List1Push(elem) ==
    /\ call1.name # "into_iter"
    /\ Len(stack1) < MaxNodes
    /\ list1' = list1_push(list1, elem)
    /\ stack1' = <<elem>> \o stack1
    /\ call1' = Call1("push", <<elem>>, None, None)
    /\ UNCHANGED not_list1

List1Pop ==
    /\ call1.name # "into_iter"
    /\ LET r == list1_pop(list1)
       IN  /\ list1' = r.list
           /\ call1' = Call1("pop", <<>>, r.ret, first_of(stack1))
    /\ stack1' = without_first(stack1)
    /\ UNCHANGED not_list1

List1Peek ==
    /\ call1.name # "into_iter"
    /\ call1' = Call1("peek", <<>>, list1_peek(list1), first_of(stack1))
    /\ UNCHANGED <<list1, stack1>>
    /\ UNCHANGED not_list1

List1Iter ==
    /\ call1.name # "into_iter"
    /\ call1' = Call1("iter", <<>>, yields("iter", list1_iter(list1), MaxNodes + 2),
                      all_then_none(stack1))
    /\ UNCHANGED <<list1, stack1>>
    /\ UNCHANGED not_list1

List1IterMut ==
    /\ call1.name # "into_iter"
    /\ call1' = Call1("iter_mut", <<>>, yields("iter_mut", list1_iter_mut(list1), MaxNodes + 2),
                      all_then_none(stack1))
    /\ UNCHANGED <<list1, stack1>>
    /\ UNCHANGED not_list1

List1IntoIter ==
    /\ call1.name # "into_iter"
    /\ call1' = Call1("into_iter", <<>>, yields("into_iter", list1_into_iter(list1), MaxNodes + 2),
                      all_then_none(stack1))
    /\ UNCHANGED <<list1, stack1>>
    /\ UNCHANGED not_list1

NextList1 ==
    \/ \E elem \in Vals : List1Push(elem)
    \/ List1Pop
    \/ List1Peek
    \/ List1Iter
    \/ List1IterMut
    \/ List1IntoIter

SpecList1 == InitOf("linked_list1") /\ [][NextList1]_vars

\* C17: under any sequence of push and pop the nodes from head on are the
\* elements pushed and not yet popped, most recent first; pop returns the most
\* recent one and None exactly when there is none; peek returns the same and
\* removes nothing; iter, iter_mut and into_iter yield all elements from most
\* to least recently pushed and then None.
C17_List1IsStack ==
    /\ elems_from(list1.head) = stack1
    /\ call1.ret = call1.expect
    /\ (call1.name = "pop" /\ call1.ret = None) => stack1 = <<>>
    /\ list1_peek(list1) = first_of(stack1)
    /\ yields("iter", list1_iter(list1), MaxNodes + 2) = all_then_none(stack1)
    /\ yields("iter_mut", list1_iter_mut(list1), MaxNodes + 2) = all_then_none(stack1)
    /\ yields("into_iter", list1_into_iter(list1), MaxNodes + 2) = all_then_none(stack1)

\* into_iter went through a stack that was emptied and refilled with
\* different values
C17_Witness ==
    /\ call1.name = "into_iter"
    /\ call1.emptied = "front"
    /\ Len(call1.ret) >= 5
    /\ call1.ret[1] # call1.ret[2]
    /\ call1.ret[Len(call1.ret) - 1] = None

\* =========================================================================
\* linked_list5::LinkedList<T> (src/src/linked_list5.rs): a doubly linked list
\* of raw NonNull<Node<T>> pointers with a length counter.  list5.nodes is the
\* heap of Box<Node> allocations by address; a node's back link leads away
\* from the front of the list.  len is a usize.
\* =========================================================================

list5_len(l) == l.len

list5_push_front(l, elem) ==
    LET new_node == alloc(l.nodes)
        nodes1   == (new_node :> [front |-> None, back |-> None, elem |-> elem]) @@ l.nodes
    IN  IF l.front # None
        THEN [front |-> Some(new_node),
              back  |-> l.back,
              len   |-> (l.len + 1) % (UsizeMax + 1),
              nodes |-> [nodes1 EXCEPT ![l.front[1]].front = Some(new_node),
                                       ![new_node].back = l.front]]
        ELSE [front |-> Some(new_node),
              back  |-> Some(new_node),
              len   |-> (l.len + 1) % (UsizeMax + 1),
              nodes |-> nodes1]

\* a pop_front that counts down before it looks at the front link
list5_pop_front_counts_first(l) ==
    IF l.front = None
    THEN [list |-> [l EXCEPT !.len = (l.len - 1) % (UsizeMax + 1)], ret |-> None]
    ELSE LET node       == l.front[1]
             boxed_node == l.nodes[node]
             nodes1     == dealloc(l.nodes, node)
         IN  [list |-> [front |-> boxed_node.back,
                        back  |-> IF boxed_node.back # None THEN l.back ELSE None,
                        len   |-> (l.len - 1) % (UsizeMax + 1),
                        nodes |-> IF boxed_node.back # None
                                  THEN [nodes1 EXCEPT ![boxed_node.back[1]].front = None]
                                  ELSE nodes1],
              ret  |-> Some(boxed_node.elem)]

list5_pop_front(l) ==
    IF l.front = None
    THEN [list |-> l, ret |-> None]
    ELSE LET node       == l.front[1]
             boxed_node == l.nodes[node]
             nodes1     == dealloc(l.nodes, node)
         IN  [list |-> [front |-> boxed_node.back,
                        back  |-> IF boxed_node.back # None THEN l.back ELSE None,
                        len   |-> (l.len - 1) % (UsizeMax + 1),
                        nodes |-> IF boxed_node.back # None
                                  THEN [nodes1 EXCEPT ![boxed_node.back[1]].front = None]
                                  ELSE nodes1],
              ret  |-> Some(boxed_node.elem)]

list5_front(l) == IF l.front = None THEN None ELSE Some(l.nodes[l.front[1]].elem)

\* call5.net: the number of push_front calls so far minus the number of
\* pop_front calls that returned an element
net_calls(call) == IF "net" \in DOMAIN call THEN call.net ELSE 0

Call5(name, arg, ret, expect) ==
    [name |-> name, arg |-> arg, ret |-> ret, expect |-> expect, panicked |-> FALSE,
     emptied |-> IF name = "pop_front" /\ Len(stack5) = 1 THEN "front" ELSE call5.emptied,
     net |-> net_calls(call5) + (IF name = "push_front" THEN 1 ELSE IF ret # None THEN -1 ELSE 0)]

List5PushFront(elem) ==
    /\ Len(stack5) < MaxNodes
    /\ list5' = list5_push_front(list5, elem)
    /\ stack5' = <<elem>> \o stack5
    /\ call5' = Call5("push_front", <<elem>>, None, None)
    /\ UNCHANGED not_list5

List5PopFront ==
    /\ LET r == list5_pop_front(list5)
       IN  /\ list5' = r.list
           /\ call5' = Call5("pop_front", <<>>, r.ret, first_of(stack5))
    /\ stack5' = without_first(stack5)
    /\ UNCHANGED not_list5

NextList5 ==
    \/ \E elem \in Vals : List5PushFront(elem)
    \/ List5PopFront

SpecList5 == InitOf("linked_list5") /\ [][NextList5]_vars

\* C18: under any sequence of push_front and pop_front, len() is the number of
\* pushes minus the number of pops that returned an element; pop_front returns
\* the elements last in first out; on an empty list it returns None and leaves
\* len() at 0; front is None iff back is None iff len() == 0.
C18_List5LenAndOrder ==
    /\ list5_len(list5) = Len(stack5)
    /\ list5_len(list5) = net_calls(call5)
    /\ call5.ret = call5.expect
    /\ (call5.name = "pop_front" /\ call5.ret = None) => list5_len(list5) = 0
    /\ (list5.front = None) <=> (list5.back = None)
    /\ (list5.front = None) <=> (list5_len(list5) = 0)
    /\ walk(list5.nodes, list5.front, "back", MaxNodes + 2) = stack5
    /\ walk(list5.nodes, list5.back, "front", MaxNodes + 2) = Reverse(stack5)
    /\ list5_front(list5) = first_of(stack5)
    /\ Cardinality(DOMAIN list5.nodes) = Len(stack5)

\* pop_front found the list empty after it had held elements
C18_Witness ==
    /\ call5.name = "pop_front"
    /\ call5.ret = None
    /\ call5.emptied = "front"
    /\ list5_len(list5) = 0

\* ------------------------------------------------ linked_list5::Iter<'a, T>
\* An Iter borrows the list, so no push or pop happens while it is alive: a
\* program builds it with iter(), makes some calls of next and next_back and
\* lets it go.  A yielded &T is the address of the node that holds the element.

list5_iter(l) == [back |-> l.back, front |-> l.back, len |-> l.len]

Iter5_next(nodes, it) ==
    IF it.len > 0
    THEN IF it.front = None
         THEN [it |-> it, ret |-> None]
         ELSE LET node == it.front[1]
              IN  [it  |-> [it EXCEPT !.len = (it.len - 1) % (UsizeMax + 1),
                                      !.front = nodes[node].back],
                   ret |-> Some(node)]
    ELSE [it |-> it, ret |-> None]

Iter5_next_back(nodes, it) ==
    IF it.len > 0
    THEN IF it.back = None
         THEN [it |-> it, ret |-> None]
         ELSE LET node == it.back[1]
              IN  [it  |-> [it EXCEPT !.len = (it.len - 1) % (UsizeMax + 1),
                                      !.back = nodes[node].front],
                   ret |-> Some(node)]
    ELSE [it |-> it, ret |-> None]

Iter5_size_hint(it) == <<it.len, Some(it.len)>>

Iter5_len(it) == it.len

\* the calls made on one iterator: up to one more than the list can hold
IterCalls == UNION {[1..n -> {"next", "next_back"}] : n \in 0..(MaxNodes + 1)}

\* what a sequence of calls returns: per call the node yielded, its element,
\* and size_hint() and len() right after the call
RECURSIVE Iter5_run(_, _, _)
Iter5_run(nodes, it, calls) ==
    IF calls = <<>> THEN <<>>
    ELSE LET r == IF Head(calls) = "next" THEN Iter5_next(nodes, it)
                                          ELSE Iter5_next_back(nodes, it)
         IN  <<[node      |-> r.ret,
                ret       |-> IF r.ret = None THEN None ELSE Some(nodes[r.ret[1]].elem),
                size_hint |-> Iter5_size_hint(r.it),
                len       |-> Iter5_len(r.it)]>>
                 \o Iter5_run(nodes, r.it, Tail(calls))

\* the same calls on a double-ended iterator over the sequence s, front first
RECURSIVE deque_run(_, _)
deque_run(s, calls) ==
    IF calls = <<>> THEN <<>>
    ELSE IF s = <<>>
         THEN <<[ret |-> None, len |-> 0]>> \o deque_run(s, Tail(calls))
         ELSE IF Head(calls) = "next"
              THEN <<[ret |-> Some(Head(s)), len |-> Len(s) - 1]>>
                       \o deque_run(Tail(s), Tail(calls))
              ELSE <<[ret |-> Some(s[Len(s)]), len |-> Len(s) - 1]>>
                       \o deque_run(without_last(s), Tail(calls))

List5Iter(calls) ==
    /\ call5' = [name |-> "iter", arg |-> calls,
                 ret |-> Iter5_run(list5.nodes, list5_iter(list5), calls),
                 expect |-> deque_run(stack5, calls),
                 panicked |-> FALSE, emptied |-> call5.emptied, net |-> net_calls(call5)]
    /\ UNCHANGED <<list5, stack5>>
    /\ UNCHANGED not_list5

NextList5Iter ==
    \/ \E elem \in Vals : List5PushFront(elem)
    \/ List5PopFront
    \/ \E calls \in IterCalls : List5Iter(calls)

\* push_front, pop_front and the iterator
SpecList5Iter == InitOf("linked_list5") /\ [][NextList5Iter]_vars

\* C25: the iterator of a list built by push_front and pop_front yields the
\* elements from the front to the back with next and from the back to the front
\* with next_back, len() of them in all; size_hint and len() are the number
\* still to come after every call; no node is yielded twice.
C25_List5IterYieldsAll ==
    call5.name = "iter" =>
        /\ Len(call5.ret) = Len(call5.expect)
        /\ \A i \in 1..Len(call5.ret) :
              /\ call5.ret[i].ret = call5.expect[i].ret
              /\ call5.ret[i].len = call5.expect[i].len
              /\ call5.ret[i].size_hint = <<call5.expect[i].len, Some(call5.expect[i].len)>>
        /\ \A i, j \in 1..Len(call5.ret) :
              (i # j /\ call5.ret[i].node # None) => call5.ret[i].node # call5.ret[j].node

\* =========================================================================
\* BinarySearchTree<T: Ord> (src/src/binary_search_tree.rs): a node holds an
\* optional value and optional boxed left and right subtrees; T is compared,
\* so the values are the integers 1..MaxKey.
\* =========================================================================

\* ---------------------------------------------------------------- bounds
MaxKey == 3        \* the values inserted are 1..MaxKey
MaxInserts == 4    \* no insert is issued once MaxInserts values were inserted

Keys == 1..MaxKey

\* floor and ceil are asked for every key, a value below and a value above all keys
Queries == 0..(MaxKey + 1)

\* an insert that leaves the tree alone when it meets the value it is given
RECURSIVE bst_insert_drops_equal(_, _)
bst_insert_drops_equal(t, value) ==
    IF t.value = None THEN [t EXCEPT !.value = Some(value)]
    ELSE IF t.value[1] = value THEN t
    ELSE LET target_node == IF t.value[1] > value THEN "left" ELSE "right"
         IN  IF t[target_node] # None
             THEN [t EXCEPT ![target_node] = Some(bst_insert_drops_equal(t[target_node][1], value))]
             ELSE [t EXCEPT ![target_node] = Some(bst_insert_drops_equal(bst_new, value))]

RECURSIVE bst_insert(_, _)
bst_insert(t, value) ==
    IF t.value = None THEN [t EXCEPT !.value = Some(value)]
    ELSE LET target_node == IF t.value[1] > value THEN "left" ELSE "right"
         IN  IF t[target_node] # None
             THEN [t EXCEPT ![target_node] = Some(bst_insert(t[target_node][1], value))]
             ELSE [t EXCEPT ![target_node] = Some(bst_insert(bst_new, value))]

\* Option::or
or(a, b) == IF a # None THEN a ELSE b

\* a floor that, coming back empty-handed from the right subtree, forgets the key
RECURSIVE bst_floor_forgets_key(_, _)
bst_floor_forgets_key(t, value) ==
    IF t.value = None THEN None
    ELSE LET key == t.value[1]
         IN  IF key = value THEN Some(key)
             ELSE IF key < value
             THEN IF t.right = None THEN Some(key)
                  ELSE bst_floor_forgets_key(t.right[1], value)
             ELSE IF t.left = None THEN None
                  ELSE bst_floor_forgets_key(t.left[1], value)

RECURSIVE bst_floor(_, _)
bst_floor(t, value) ==
    IF t.value = None THEN None
    ELSE LET key == t.value[1]
         IN  IF key = value THEN Some(key)
             ELSE IF key < value
             THEN IF t.right = None THEN Some(key)
                  ELSE or(bst_floor(t.right[1], value), Some(key))
             ELSE IF t.left = None THEN None
                  ELSE bst_floor(t.left[1], value)

RECURSIVE bst_ceil(_, _)
bst_ceil(t, value) ==
    IF t.value = None THEN None
    ELSE LET key == t.value[1]
         IN  IF key = value THEN Some(key)
             ELSE IF key < value
             THEN IF t.right = None THEN None
                  ELSE bst_ceil(t.right[1], value)
             ELSE IF t.left = None THEN Some(key)
                  ELSE or(bst_ceil(t.left[1], value), Some(key))

\* a search that goes right where the key is greater and left where it is less
RECURSIVE bst_search_wrong_side(_, _)
bst_search_wrong_side(t, value) ==
    IF t.value = None THEN FALSE
    ELSE LET key == t.value[1]
         IN  IF key = value THEN TRUE
             ELSE IF key > value
             THEN IF t.right = None THEN FALSE ELSE bst_search_wrong_side(t.right[1], value)
             ELSE IF t.left = None THEN FALSE ELSE bst_search_wrong_side(t.left[1], value)

RECURSIVE bst_search(_, _)
bst_search(t, value) ==
    IF t.value = None THEN FALSE
    ELSE LET key == t.value[1]
         IN  IF key = value THEN TRUE
             ELSE IF key > value
             THEN IF t.left = None THEN FALSE ELSE bst_search(t.left[1], value)
             ELSE IF t.right = None THEN FALSE ELSE bst_search(t.right[1], value)

RECURSIVE bst_minimum(_)
bst_minimum(t) == IF t.left = None THEN t.value ELSE bst_minimum(t.left[1])

RECURSIVE bst_maximum(_)
bst_maximum(t) == IF t.right = None THEN t.value ELSE bst_maximum(t.right[1])

\* values(vs): what the call pushes to the back of vs
RECURSIVE bst_values(_)
bst_values(t) ==
    (IF t.left # None THEN bst_values(t.left[1]) ELSE <<>>)
      \o (IF t.value # None THEN <<t.value[1]>> ELSE <<>>)
      \o (IF t.right # None THEN bst_values(t.right[1]) ELSE <<>>)

\* iter(): the values BinarySearchTreeIterator::next hands out, front first
bst_iter(t) == bst_values(t)

bst_len(t) == Len(bst_iter(t))

\* a sequence of keys in ascending order, as Vec::sort leaves it
sorted(s) ==
    LET RECURSIVE upto(_)
        upto(k) == IF k = 0 THEN <<>>
                   ELSE upto(k - 1) \o [i \in 1..Cardinality({j \in 1..Len(s) : s[j] = k}) |-> k]
    IN  upto(MaxKey)

\* the greatest value of s that is <= v, and the least that is >= v
floor_of(s, v) ==
    LET c == {s[i] : i \in 1..Len(s)} \cap (0..v)
    IN  IF c = {} THEN None ELSE Some(CHOOSE x \in c : \A y \in c : y <= x)

ceil_of(s, v) ==
    LET c == {s[i] : i \in 1..Len(s)} \cap (v..MaxKey)
    IN  IF c = {} THEN None ELSE Some(CHOOSE x \in c : \A y \in c : x <= y)

CallBst(name, arg, ret, expect) ==
    [name |-> name, arg |-> arg, ret |-> ret, expect |-> expect, panicked |-> FALSE,
     emptied |-> "never"]

BstInsert(value) ==
    /\ Len(inserted) < MaxInserts
    /\ tree' = bst_insert(tree, value)
    /\ inserted' = Append(inserted, value)
    /\ call_bst' = CallBst("insert", <<value>>, None, None)
    /\ UNCHANGED not_bst

BstFloor(value) ==
    /\ call_bst' = CallBst("floor", <<value>>, bst_floor(tree, value), floor_of(inserted, value))
    /\ UNCHANGED <<tree, inserted>>
    /\ UNCHANGED not_bst

BstCeil(value) ==
    /\ call_bst' = CallBst("ceil", <<value>>, bst_ceil(tree, value), ceil_of(inserted, value))
    /\ UNCHANGED <<tree, inserted>>
    /\ UNCHANGED not_bst

BstIter ==
    /\ call_bst' = CallBst("iter", <<>>, bst_iter(tree), sorted(inserted))
    /\ UNCHANGED <<tree, inserted>>
    /\ UNCHANGED not_bst

BstLen ==
    /\ call_bst' = CallBst("len", <<>>, bst_len(tree), Len(inserted))
    /\ UNCHANGED <<tree, inserted>>
    /\ UNCHANGED not_bst

BstSearch(value) ==
    /\ call_bst' = CallBst("search", <<value>>, bst_search(tree, value),
                           \E i \in 1..Len(inserted) : inserted[i] = value)
    /\ UNCHANGED <<tree, inserted>>
    /\ UNCHANGED not_bst

BstMinimum ==
    /\ call_bst' = CallBst("minimum", <<>>, bst_minimum(tree), ceil_of(inserted, 0))
    /\ UNCHANGED <<tree, inserted>>
    /\ UNCHANGED not_bst

BstMaximum ==
    /\ call_bst' = CallBst("maximum", <<>>, bst_maximum(tree), floor_of(inserted, MaxKey + 1))
    /\ UNCHANGED <<tree, inserted>>
    /\ UNCHANGED not_bst

NextBst ==
    \/ \E value \in Keys : BstInsert(value)
    \/ \E value \in Queries : BstFloor(value)
    \/ \E value \in Queries : BstCeil(value)
    \/ BstIter
    \/ BstLen
    \/ \E value \in Queries : BstSearch(value)
    \/ BstMinimum
    \/ BstMaximum

SpecBst == InitOf("binary_search_tree") /\ [][NextBst]_vars

\* C19: after any sequence of inserts, duplicates included, iter() yields
\* every inserted value as often as it was inserted, in ascending order, and
\* len() is the number of insert calls.
C19_BstIterSorted ==
    /\ bst_iter(tree) = sorted(inserted)
    /\ \A k \in Keys : Cardinality({i \in 1..Len(bst_iter(tree)) : bst_iter(tree)[i] = k})
                         = Cardinality({i \in 1..Len(inserted) : inserted[i] = k})
    /\ \A i \in 1..(Len(bst_iter(tree)) - 1) : bst_iter(tree)[i] <= bst_iter(tree)[i + 1]
    /\ bst_len(tree) = Len(inserted)
    /\ call_bst.name \in {"iter", "len"} => call_bst.ret = call_bst.expect

\* iter() went over a tree built from values that came out of order and twice
C19_Witness ==
    /\ call_bst.name = "iter"
    /\ Len(call_bst.ret) >= 3
    /\ inserted # call_bst.ret
    /\ \E i, j \in 1..Len(inserted) : i # j /\ inserted[i] = inserted[j]

\* C20: for every tree built by inserts and every query v, floor(v) is the
\* greatest stored value <= v and ceil(v) the least stored value >= v, None
\* when there is none; both return v when v is stored.
C20_BstFloorCeil ==
    /\ \A v \in Queries :
          /\ bst_floor(tree, v) = floor_of(inserted, v)
          /\ bst_ceil(tree, v) = ceil_of(inserted, v)
          /\ (\E i \in 1..Len(inserted) : inserted[i] = v)
                => (bst_floor(tree, v) = Some(v) /\ bst_ceil(tree, v) = Some(v))
    /\ call_bst.name \in {"floor", "ceil"} => call_bst.ret = call_bst.expect

\* floor(v) of a value that is not stored, between a smaller and a greater
\* stored value, where the search came back from a right subtree
C20_Witness ==
    /\ call_bst.name = "floor"
    /\ call_bst.ret # None
    /\ call_bst.ret[1] < call_bst.arg[1]
    /\ \E i \in 1..Len(inserted) : inserted[i] > call_bst.arg[1]
    /\ tree.value = call_bst.ret
    /\ tree.right # None

\* the values inserted so far
stored == {inserted[i] : i \in 1..Len(inserted)}

\* C21: for every tree built by inserts, search(v) is true exactly when v was
\* inserted, minimum() and maximum() return the smallest and the largest
\* inserted value, and on an empty tree they report false / None.
C21_BstSearchMinMax ==
    /\ \A v \in Queries : bst_search(tree, v) <=> v \in stored
    /\ stored = {} => (bst_minimum(tree) = None /\ bst_maximum(tree) = None)
    /\ stored # {} =>
          /\ bst_minimum(tree) # None /\ bst_maximum(tree) # None
          /\ bst_minimum(tree)[1] \in stored /\ bst_maximum(tree)[1] \in stored
          /\ \A x \in stored : bst_minimum(tree)[1] <= x /\ x <= bst_maximum(tree)[1]
    /\ call_bst.name \in {"search", "minimum", "maximum"} => call_bst.ret = call_bst.expect

\* search found a value that was inserted twice and sits below the root, in a
\* tree that has a left and a right subtree
C21_Witness ==
    /\ call_bst.name = "search"
    /\ call_bst.ret = TRUE
    /\ tree.value # Some(call_bst.arg[1])
    /\ tree.left # None /\ tree.right # None
    /\ \E i, j \in 1..Len(inserted) : i # j /\ inserted[i] = call_bst.arg[1]
                                          /\ inserted[j] = call_bst.arg[1]

\* =========================================================================
\* data_structures::trie::Trie<K, V> (src/src/data_structures/trie.rs): a node
\* holds a HashMap from key items to child nodes and an optional value.  K is
\* only hashed and compared for equality, V only stored: two items and the two
\* values of Vals tell every case apart.
\* =========================================================================

\* ---------------------------------------------------------------- bounds
MaxKeyLen == 2       \* the keys inserted have at most MaxKeyLen items
MaxKeys == 2         \* no new key is inserted once the trie holds MaxKeys keys

Items == {1, 2}

\* the keys of up to n items
KeysUpTo(n) == UNION {[1..m -> Items] : m \in 0..n}

\* the keys insert is called with, and the keys get is called with: those and
\* every extension of them by one item
InsertKeys == KeysUpTo(MaxKeyLen)
QueryKeys == KeysUpTo(MaxKeyLen + 1)

\* the node insert ends at: the children along the key are entered, and made
\* from Node::default where missing (entry(c).or_insert_with)
RECURSIVE node_insert(_, _, _)
node_insert(node, key, value) ==
    IF key = <<>> THEN [node EXCEPT !.value = Some(value)]
    ELSE LET c     == Head(key)
             child == IF c \in DOMAIN node.children THEN node.children[c] ELSE Node_default
         IN  [node EXCEPT !.children = (c :> node_insert(child, Tail(key), value)) @@ @]

trie_insert(t, key, value) == [root |-> node_insert(t.root, key, value)]

\* a lookup that answers with the value of the node it got to when an item
\* of the key has no child
RECURSIVE node_get_longest_prefix(_, _)
node_get_longest_prefix(node, key) ==
    IF key = <<>> THEN node.value
    ELSE IF Head(key) \in DOMAIN node.children
    THEN node_get_longest_prefix(node.children[Head(key)], Tail(key))
    ELSE node.value

RECURSIVE node_get(_, _)
node_get(node, key) ==
    IF key = <<>> THEN node.value
    ELSE IF Head(key) \in DOMAIN node.children
    THEN node_get(node.children[Head(key)], Tail(key))
    ELSE None

trie_get(t, key) == node_get(t.root, key)

\* what a map from keys to values answers
assoc_get(m, key) == IF key \in DOMAIN m THEN Some(m[key]) ELSE None

\* call_trie.expect of a get: what the map answers; of an insert: the trie
\* as it was before the call
CallTrie(name, arg, ret, expect) ==
    [name |-> name, arg |-> arg, ret |-> ret, expect |-> expect, panicked |-> FALSE,
     emptied |-> "never"]

TrieInsert(key, value) ==
    /\ key \in DOMAIN assoc \/ Cardinality(DOMAIN assoc) < MaxKeys
    /\ trie' = trie_insert(trie, key, value)
    /\ assoc' = (key :> value) @@ assoc
    /\ call_trie' = CallTrie("insert", <<key, value>>, None, trie)
    /\ UNCHANGED not_trie

TrieGet(key) ==
    /\ call_trie' = CallTrie("get", <<key>>, trie_get(trie, key), assoc_get(assoc, key))
    /\ UNCHANGED <<trie, assoc>>
    /\ UNCHANGED not_trie

NextTrie ==
    \/ \E key \in InsertKeys, value \in Vals : TrieInsert(key, value)
    \/ \E key \in QueryKeys : TrieGet(key)

SpecTrie == InitOf("trie") /\ [][NextTrie]_vars

\* C22: after any sequence of inserts, get(k) returns the value of the most
\* recent insert under exactly k, and None for every key never inserted:
\* proper prefixes and extensions of inserted keys and the empty key included;
\* an insert under one key changes get for no other key.
C22_TrieGetLatest ==
    /\ \A k \in QueryKeys : trie_get(trie, k) = assoc_get(assoc, k)
    /\ call_trie.name = "get" => call_trie.ret = call_trie.expect
    /\ call_trie.name = "insert" =>
          /\ trie_get(trie, call_trie.arg[1]) = Some(call_trie.arg[2])
          /\ \A k \in QueryKeys \ {call_trie.arg[1]} :
                trie_get(trie, k) = trie_get(call_trie.expect, k)

\* get returned None for an extension of an inserted key whose proper prefix
\* holds no value, in a trie of two keys
C22_Witness ==
    /\ call_trie.name = "get"
    /\ call_trie.ret = None
    /\ Len(call_trie.arg[1]) = 3
    /\ \E k \in DOMAIN assoc :
          /\ Len(k) = 2
          /\ k = SubSeq(call_trie.arg[1], 1, 2)
          /\ trie_get(trie, k) = Some(2)
          /\ trie_get(trie, SubSeq(k, 1, 1)) = None
    /\ Cardinality(DOMAIN assoc) = 2

====
